---- MODULE Spec2Model ----
(***************************************************************************)
(* A model of latextools' LatexProject (project.py) and of the file        *)
(* classes' constructors (file.py): the argument validation, the output    *)
(* file name derivation and the compile / save pipeline around the         *)
(* external pdflatex process.                                               *)
(*                                                                         *)
(* Text is a sequence of one-character strings, bytes are a sequence of    *)
(* integers 0..255, decoded text is a sequence of code points.             *)
(***************************************************************************)
EXTENDS Integers, Sequences, FiniteSets, TLC

VARIABLES
    proj_fs,      \* self.proj_fs: the set of paths written into the project
    pc,           \* position of the caller: idle, loop, communicate, copy, done
    op,           \* the pipeline call in progress
    fname_list,   \* its fname_list argument
    tmp_arg,      \* its tmp_dir argument as passed: "None" or "caller"
    return_path,  \* its return_path argument
    dst_args,     \* save_pdf_batch: which of base_dir / dst_fs were supplied
    tempAlive,    \* the TemporaryDirectory allocated by the call exists on disk
    tempMade,     \* number of temporary directories allocated by the call
    work,         \* the working directory: file name -> content stamp
    staged,       \* number of write_src calls into the working directory
    i,            \* compile_pdf_batch: index of the current entry (1-based)
    out_list,     \* compile_pdf_batch: out_list
    running,      \* number of pdflatex processes launched and not yet reaped
    log,          \* one record per subprocess.Popen call: what the process saw and
                  \* did (its output streams are kept when it failed: the code
                  \* reads them only then)
    j,            \* save_pdf_batch: index into out_fname_list
    dst,          \* the destination store: dirs and files (name -> content)
    result,       \* how the pipeline call ended
    last          \* the last one-step call: its arguments and outcome

vars == <<proj_fs, pc, op, fname_list, tmp_arg, return_path, dst_args, tempAlive,
          tempMade, work, staged, i, out_list, running, log, j, dst, result, last>>

(***************************************************************************)
(* Bounds                                                                  *)
(***************************************************************************)
MaxEntries == 2     \* longest fname_list of a batch
MaxNameLen == 3     \* longest file name given to _get_output_fname directly

(***************************************************************************)
(* Text helpers                                                            *)
(***************************************************************************)
Chars == {"a", "T", ".", "/"}

RECURSIVE NamesUpTo(_)
NamesUpTo(n) ==
    IF n = 0 THEN {<<>>}
    ELSE LET S == NamesUpTo(n - 1)
         IN S \cup {Append(s, c) : s \in {t \in S : Len(t) = n - 1}, c \in Chars}

Contains(s, c) == \E k \in 1..Len(s) : s[k] = c

\* index of the last occurrence of c in s, 0 when there is none
LastIndexOf(s, c) ==
    IF Contains(s, c) THEN CHOOSE k \in 1..Len(s) :
                                s[k] = c /\ \A m \in (k + 1)..Len(s) : s[m] # c
    ELSE 0

\* str.split(sep): the pieces between the occurrences of sep, always >= 1 piece
RECURSIVE Split(_, _)
Split(s, sep) ==
    IF ~Contains(s, sep) THEN <<s>>
    ELSE LET k == CHOOSE n \in 1..Len(s) :
                      s[n] = sep /\ \A m \in 1..(n - 1) : s[m] # sep
         IN <<SubSeq(s, 1, k - 1)>> \o Split(SubSeq(s, k + 1, Len(s)), sep)

\* sep.join(comps)
RECURSIVE Join(_, _)
Join(comps, sep) ==
    IF Len(comps) = 0 THEN <<>>
    ELSE IF Len(comps) = 1 THEN comps[1]
    ELSE comps[1] \o <<sep>> \o Join(Tail(comps), sep)

PdfExt == <<"p", "d", "f">>

\* LatexProject._get_output_fname(fname, out_extension)
get_output_fname(fname, out_extension) ==
    LET comps == Split(fname, ".")
        comps2 == IF Len(comps) <= 1
                  THEN Append(comps, out_extension)
                  ELSE [comps EXCEPT ![Len(comps)] = out_extension]
    IN Join(comps2, ".")

\* fs.path.dirname(path): '' when path holds no '/', else the part before the
\* last '/' ('/' when that part is empty)
dirname(path) ==
    LET k == LastIndexOf(path, "/")
    IN IF k = 0 THEN <<>>
       ELSE IF k = 1 THEN <<"/">>
       ELSE SubSeq(path, 1, k - 1)


(***************************************************************************)
(* bytes.decode(): UTF-8, errors="strict"                                  *)
(***************************************************************************)
IsCont(b) == b >= 128 /\ b <= 191

\* number of bytes of the well-formed UTF-8 sequence that starts bs, 0 if none
Utf8Width(bs) ==
    LET b == bs[1]
        n == Len(bs)
    IN IF b < 128 THEN 1
       ELSE IF b >= 194 /\ b <= 223 /\ n >= 2 /\ IsCont(bs[2]) THEN 2
       ELSE IF b >= 224 /\ b <= 239 /\ n >= 3 /\ IsCont(bs[2]) /\ IsCont(bs[3])
               /\ (b = 224 => bs[2] >= 160) /\ (b = 237 => bs[2] <= 159) THEN 3
       ELSE IF b >= 240 /\ b <= 244 /\ n >= 4
               /\ IsCont(bs[2]) /\ IsCont(bs[3]) /\ IsCont(bs[4])
               /\ (b = 240 => bs[2] >= 144) /\ (b = 244 => bs[2] <= 143) THEN 4
       ELSE 0

Utf8CodePoint(bs, w) ==
    IF w = 1 THEN bs[1]
    ELSE IF w = 2 THEN (bs[1] - 192) * 64 + (bs[2] - 128)
    ELSE IF w = 3 THEN (bs[1] - 224) * 4096 + (bs[2] - 128) * 64 + (bs[3] - 128)
    ELSE (bs[1] - 240) * 262144 + (bs[2] - 128) * 4096
         + (bs[3] - 128) * 64 + (bs[4] - 128)

\* [ok, text]: ok is FALSE where Python raises UnicodeDecodeError
RECURSIVE decode(_)
decode(bs) ==
    IF Len(bs) = 0 THEN [ok |-> TRUE, text |-> <<>>]
    ELSE LET w == Utf8Width(bs)
         IN IF w = 0 THEN [ok |-> FALSE, text |-> <<>>]
            ELSE LET rest == decode(SubSeq(bs, w + 1, Len(bs)))
                 IN [ok |-> rest.ok,
                     text |-> IF rest.ok THEN <<Utf8CodePoint(bs, w)>> \o rest.text
                              ELSE <<>>]

(***************************************************************************)
(* Outcomes of a call                                                      *)
(***************************************************************************)
Return(v) == [kind |-> "return", value |-> v]
Raise(exc, msg) == [kind |-> "raise", exc |-> exc, msg |-> msg]
NoOutcome == [kind |-> "none"]

\* the message texts of the TypeErrors are not modelled character by character
MsgAddFile == "Specify exactly one of text, data, file, or fname."
MsgGetFs == "Specify at least one argument."
MsgBinaryFile == "Specify either fname or data."
MsgPlainTextFile == "Specify either fname or text."

\* 'Latex compiler pdflatex not found.' as code points (ASCII)
NotFoundText ==
    <<76, 97, 116, 101, 120, 32, 99, 111, 109, 112, 105, 108, 101, 114, 32, 112,
      100, 102, 108, 97, 116, 101, 120, 32, 110, 111, 116, 32, 102, 111, 117, 110,
      100, 46>>

\* b'Error on line 5'
ErrorOnLine5 == <<69, 114, 114, 111, 114, 32, 111, 110, 32, 108, 105, 110, 101, 32, 53>>

(***************************************************************************)
(* Argument validation                                                     *)
(***************************************************************************)
None == "None"
Given(x) == IF x # None THEN 1 ELSE 0

\* the external files a fname argument can name
ExtFiles == {"present", "absent"}
OpenFails(fname) == fname = "absent"

\* BinaryFile.__init__(path, data, fname)
BinaryFileInit(path, data, fname) ==
    IF Given(fname) + Given(data) # 1 THEN Raise("TypeError", MsgBinaryFile)
    ELSE IF data = None /\ OpenFails(fname) THEN Raise("FileNotFoundError", fname)
    ELSE Return([path |-> path,
                 data |-> IF data = None THEN <<"read", fname, "rb">> ELSE <<data>>])

\* PlainTextFile.__init__(path, text, fname)
PlainTextFileInit(path, text, fname) ==
    IF Given(fname) + Given(text) # 1 THEN Raise("TypeError", MsgPlainTextFile)
    ELSE IF text = None /\ OpenFails(fname) THEN Raise("FileNotFoundError", fname)
    ELSE Return([path |-> path,
                 text |-> IF text = None THEN <<"read", fname, "r">> ELSE <<text>>])

\* LatexProject.add_file: the outcome of the call
AddFileOutcome(path, text, data, file, fname) ==
    IF Given(text) + Given(data) + Given(file) + Given(fname) # 1
    THEN Raise("TypeError", MsgAddFile)
    ELSE IF fname # None /\ OpenFails(fname) THEN Raise("FileNotFoundError", fname)
    ELSE Return(None)

\* _get_fs as it would be with the exactly-one check of add_file
GetFsExactlyOne(base_dir, dst_fs) ==
    IF Given(base_dir) + Given(dst_fs) # 1 THEN Raise("TypeError", MsgGetFs)
    ELSE IF base_dir = None THEN Return(<<dst_fs>>)
    ELSE IF OpenFails(base_dir) THEN Raise("CreateFailed", base_dir)
    ELSE Return(<<"open_fs", base_dir>>)

\* LatexProject._get_fs(base_dir, dst_fs); a base_dir names a directory that can
\* be opened ("present") or not ("absent")
GetFs(base_dir, dst_fs) ==
    IF Given(base_dir) + Given(dst_fs) < 1 THEN Raise("TypeError", MsgGetFs)
    ELSE IF base_dir = None THEN Return(<<dst_fs>>)
    ELSE IF dst_fs = None
         THEN IF OpenFails(base_dir) THEN Raise("CreateFailed", base_dir)
              ELSE Return(<<"open_fs", base_dir>>)
    ELSE IF OpenFails(base_dir) THEN Raise("ResourceNotFound", base_dir)
         ELSE Return(<<dst_fs, "opendir", base_dir>>)


(***************************************************************************)
(* The files of the pipeline                                               *)
(***************************************************************************)
MainTex == <<"m", "a", "i", "n", ".", "t", "e", "x">>
MainPdf == <<"m", "a", "i", "n", ".", "p", "d", "f">>
SubReport == <<"d", "/", "r">>

\* the entry names a batch is made of: one with an extension, one without an
\* extension and inside a directory
EntryNames == {MainTex, SubReport}

\* the files one run of the compiler may leave in its working directory
CompilerFiles == {get_output_fname(e, PdfExt) : e \in EntryNames}

RECURSIVE ListsUpTo(_, _)
ListsUpTo(S, n) ==
    IF n = 0 THEN {<<>>}
    ELSE LET L == ListsUpTo(S, n - 1)
         IN L \cup {Append(l, e) : l \in {m \in L : Len(m) = n - 1}, e \in S}

\* a directory is a function from file names to content stamps: 0 for a file
\* staged from the project, k for a file written by the k-th compiler run,
\* -1 for a file that was there before the call
EmptyDir == [x \in {} |-> 0]
StaleDir == [x \in {MainPdf} |-> -1]

WriteFiles(dir, names, stamp) ==
    [x \in (DOMAIN dir) \cup names |-> IF x \in names THEN stamp ELSE dir[x]]

\* LatexProject.write_src(tmp_dir): fs.copy.copy_dir(self.proj_fs, '/', dst_fs, '/')
write_src(files, dir) == WriteFiles(dir, files, 0)

(***************************************************************************)
(* State after construction: LatexProject() with an empty MemoryFS         *)
(***************************************************************************)
NoDst == [base_dir |-> None, dst_fs |-> None, before |-> [dirs |-> {}, files |-> EmptyDir]]

Init ==
    /\ proj_fs = {}
    /\ pc = "idle"
    /\ op = "none"
    /\ fname_list = <<>>
    /\ tmp_arg = None
    /\ return_path = FALSE
    /\ dst_args = NoDst
    /\ tempAlive = FALSE
    /\ tempMade = 0
    /\ work = EmptyDir
    /\ staged = 0
    /\ i = 1
    /\ out_list = <<>>
    /\ running = 0
    /\ log = <<>>
    /\ j = 1
    /\ dst = NoDst.before
    /\ result = NoOutcome
    /\ last = [op |-> "none"]

pipelineVars == <<pc, op, fname_list, tmp_arg, return_path, dst_args, tempAlive,
                  tempMade, work, staged, i, out_list, running, log, j, dst, result>>

ArgValues(v) == {None, v}

(***************************************************************************)
(* One-step calls                                                          *)
(***************************************************************************)
\* LatexProject.add_file(path, text, data, file, fname)
add_file ==
    /\ pc = "idle"
    /\ \E path \in {MainTex}, text \in ArgValues("text"), data \in ArgValues("data"),
          file \in ArgValues("file"), fname \in {None} \cup ExtFiles :
         LET out == AddFileOutcome(path, text, data, file, fname)
         IN /\ proj_fs' = IF out.kind = "return" THEN proj_fs \cup {path} ELSE proj_fs
            /\ last' = [op |-> "add_file",
                        given |-> Given(text) + Given(data) + Given(file) + Given(fname),
                        args |-> <<text, data, file, fname>>,
                        out |-> out]
    /\ UNCHANGED pipelineVars

\* BinaryFile(path, data=..., fname=...)
NewBinaryFile ==
    /\ pc = "idle"
    /\ \E data \in ArgValues("data"), fname \in {None} \cup ExtFiles :
         last' = [op |-> "BinaryFile",
                  given |-> Given(data) + Given(fname),
                  args |-> <<data, fname>>,
                  out |-> BinaryFileInit(MainTex, data, fname)]
    /\ UNCHANGED <<proj_fs, pipelineVars>>

\* PlainTextFile(path, text=..., fname=...)
NewPlainTextFile ==
    /\ pc = "idle"
    /\ \E text \in ArgValues("text"), fname \in {None} \cup ExtFiles :
         last' = [op |-> "PlainTextFile",
                  given |-> Given(text) + Given(fname),
                  args |-> <<text, fname>>,
                  out |-> PlainTextFileInit(MainTex, text, fname)]
    /\ UNCHANGED <<proj_fs, pipelineVars>>

\* LatexProject._get_fs(base_dir, dst_fs)
get_fs ==
    /\ pc = "idle"
    /\ \E base_dir \in {None} \cup ExtFiles, dst_fs \in ArgValues("dst_fs") :
         last' = [op |-> "_get_fs",
                  given |-> Given(base_dir) + Given(dst_fs),
                  args |-> <<base_dir, dst_fs>>,
                  out |-> GetFs(base_dir, dst_fs)]
    /\ UNCHANGED <<proj_fs, pipelineVars>>

\* LatexProject._get_output_fname(fname, 'pdf')
output_fname ==
    /\ pc = "idle"
    /\ \E fname \in NamesUpTo(MaxNameLen) :
         last' = [op |-> "_get_output_fname",
                  given |-> 1,
                  args |-> fname,
                  out |-> Return(get_output_fname(fname, PdfExt))]
    /\ UNCHANGED <<proj_fs, pipelineVars>>


(***************************************************************************)
(* The compile pipeline                                                    *)
(***************************************************************************)
NoResult == [kind |-> "None"]
PathResult(fname) == [kind |-> "path", fname |-> fname]
PdfResult(data) == [kind |-> "Pdf", data |-> data]

\* the loop body without its "else: out_fname = None"
EntryResultKeepsName(exists, rp, out_fname, data) ==
    IF rp THEN PathResult(out_fname)
    ELSE IF exists THEN PdfResult(data) ELSE NoResult

\* compile_pdf_batch, the body of the loop after run_pdflatex: the value
\* appended to out_list for an entry
EntryResult(exists, rp, out_fname, data) ==
    IF exists
    THEN IF rp THEN PathResult(out_fname) ELSE PdfResult(data)
    ELSE NoResult

\* out_list.insert(0, ...)
PrependResult(list, r) == <<r>> \o list

\* out_list.append(...)
AppendResult(list, r) == Append(list, r)

\* run_pdflatex without the check of p.returncode
RunPdflatexIgnoresExit(returncode, stdout, stderr) == Return(None)

\* run_pdflatex after p.communicate(): None, or the exception raised
RunPdflatexOutcome(returncode, stdout, stderr) ==
    IF returncode = 0 THEN Return(None)
    ELSE LET d1 == IF stdout # <<>> THEN decode(stdout) ELSE [ok |-> TRUE, text |-> <<>>]
             d2 == IF stderr # <<>> THEN decode(stderr) ELSE [ok |-> TRUE, text |-> <<>>]
         IN IF ~d1.ok \/ ~d2.ok THEN Raise("UnicodeDecodeError", <<>>)
            ELSE Raise("LatexError", d1.text \o d2.text)

\* run_pdflatex when subprocess.Popen raises: only FileNotFoundError is caught
PopenFailure(exc) ==
    IF exc = "FileNotFoundError" THEN Raise("LatexError", NotFoundText)
    ELSE Raise(exc, <<>>)

\* run_pdflatex without p.communicate(): the process is left running
NoWait(n) == n

\* p.communicate() returns once the process has terminated
AfterCommunicate(n) == n - 1

\* a cleanup written after the call instead of a with block: skipped when the
\* call raises
TemporaryDirectoryLeakOnError(outcome) == outcome.kind = "raise"

\* leaving "with tempfile.TemporaryDirectory() as tmp_dir": whether the directory
\* still exists, for each way the block is left
TemporaryDirectoryExit(outcome) == FALSE

\* the for loops of compile_pdf_batch and save_pdf_batch are exhausted
LoopDone(k, list) == k > Len(list)

\* what the compiler's output streams hold in the model
StdoutSamples == {<<>>, ErrorOnLine5, NotFoundText, <<255>>}
StderrSamples == {<<>>, <<195, 169>>}
LaunchOutcomes == {"ok", "FileNotFoundError", "PermissionError"}

\* the call ends: the with block (if any) is left, the outcome reaches the caller
Exit(outcome, dir) ==
    /\ result' = outcome
    /\ pc' = "done"
    /\ tempAlive' = IF tmp_arg = None THEN TemporaryDirectoryExit(outcome) ELSE tempAlive
    /\ work' = IF tmp_arg = None /\ ~tempAlive' THEN EmptyDir ELSE dir

\* compile_pdf_batch(fname_list, tmp_dir, return_path), lines 67-75: the
\* directory is allocated if none was given, the project is staged
CallCompile(name, list, td, rp) ==
    /\ op' = name
    /\ fname_list' = list
    /\ tmp_arg' = td
    /\ return_path' = rp
    /\ tempAlive' = (td = None)
    /\ tempMade' = IF td = None THEN 1 ELSE 0
    /\ \E before \in IF td = None THEN {EmptyDir} ELSE {EmptyDir, StaleDir} :
         work' = write_src(proj_fs, before)
    /\ staged' = 1
    /\ i' = 1
    /\ out_list' = <<>>
    /\ pc' = "loop"
    /\ last' = [op |-> "none"]
    /\ UNCHANGED <<proj_fs, dst_args, running, log, j, dst, result>>

compile_pdf_batch ==
    /\ pc = "idle"
    /\ \E list \in ListsUpTo(EntryNames, MaxEntries), td \in ArgValues("caller"),
          rp \in BOOLEAN :
         CallCompile("compile_pdf_batch", list, td, rp)

\* compile_pdf(fname, tmp_dir, return_path): compile_pdf_batch([fname], ...)[0]
compile_pdf ==
    /\ pc = "idle"
    /\ \E fname \in EntryNames, td \in ArgValues("caller"), rp \in BOOLEAN :
         CallCompile("compile_pdf", <<fname>>, td, rp)

\* save_pdf_batch(fname_list, base_dir, dst_fs, tmp_dir): lines 97-109, up to the
\* first compiler launch
save_pdf_batch ==
    /\ pc = "idle"
    /\ \E list \in ListsUpTo(EntryNames, MaxEntries), td \in ArgValues("caller"),
          base_dir \in {None} \cup ExtFiles, dst_fs \in ArgValues("dst_fs"),
          before \in {EmptyDir, StaleDir}, dstBefore \in {EmptyDir, StaleDir} :
         LET got == GetFs(base_dir, dst_fs)
             dir == IF td = None THEN EmptyDir ELSE before
         IN /\ td = None => before = EmptyDir
            /\ op' = "save_pdf_batch"
            /\ fname_list' = list
            /\ tmp_arg' = td
            /\ return_path' = TRUE
            /\ dst_args' = [base_dir |-> base_dir, dst_fs |-> dst_fs,
                            before |-> [dirs |-> {}, files |-> dstBefore]]
            /\ dst' = [dirs |-> {}, files |-> dstBefore]
            /\ tempMade' = IF td = None THEN 1 ELSE 0
            /\ i' = 1
            /\ out_list' = <<>>
            /\ last' = [op |-> "none"]
            /\ IF got.kind = "raise"
               THEN /\ result' = got
                    /\ pc' = "done"
                    /\ tempAlive' = IF td = None THEN TemporaryDirectoryExit(got) ELSE FALSE
                    /\ work' = IF td = None /\ ~tempAlive' THEN EmptyDir ELSE dir
                    /\ staged' = 0
               ELSE /\ result' = result
                    /\ pc' = "loop"
                    /\ tempAlive' = (td = None)
                    /\ work' = write_src(proj_fs, dir)
                    /\ staged' = 1
    /\ UNCHANGED <<proj_fs, running, log, j>>

\* run_pdflatex, lines 115-121: subprocess.Popen(['pdflatex', 'main.tex'], cwd=cwd)
Popen ==
    /\ pc = "loop"
    /\ ~LoopDone(i, fname_list)
    /\ \E launch \in LaunchOutcomes :
         /\ log' = Append(log, [entry |-> i,
                                argv |-> <<"pdflatex", "main.tex">>,
                                cwd |-> tmp_arg,
                                launch |-> launch,
                                returncode |-> -1,   \* not terminated
                                stdout |-> <<>>,
                                stderr |-> <<>>,
                                alreadyRunning |-> running,
                                stagedBefore |-> staged,
                                seen |-> work,
                                wrote |-> {}])
         /\ IF launch = "ok"
            THEN /\ running' = running + 1
                 /\ pc' = "communicate"
                 /\ UNCHANGED <<result, tempAlive, work>>
            ELSE /\ Exit(PopenFailure(launch), work)
                 /\ UNCHANGED running
    /\ UNCHANGED <<proj_fs, op, fname_list, tmp_arg, return_path, dst_args, tempMade,
                   staged, i, out_list, j, dst, last>>

\* run_pdflatex, lines 122-130, and the rest of the loop body, lines 79-87
Communicate ==
    /\ pc = "communicate"
    /\ \E returncode \in {0, 1}, stdout \in StdoutSamples, stderr \in StderrSamples,
          wrote \in SUBSET CompilerFiles :
         LET dir == WriteFiles(work, wrote, Len(log))
             ran == RunPdflatexOutcome(returncode, stdout, stderr)
             out_fname == get_output_fname(fname_list[i], PdfExt)
             exists == out_fname \in DOMAIN dir
         IN /\ running' = AfterCommunicate(running)
            /\ log' = [log EXCEPT
                          ![Len(log)].wrote = wrote,
                          ![Len(log)].returncode = returncode,
                          ![Len(log)].stdout = IF returncode # 0 THEN stdout ELSE <<>>,
                          ![Len(log)].stderr = IF returncode # 0 THEN stderr ELSE <<>>]
            /\ IF ran.kind = "raise"
               THEN /\ Exit(ran, dir)
                    /\ UNCHANGED <<i, out_list>>
               ELSE /\ out_list' = AppendResult(out_list,
                                        EntryResult(exists, return_path, out_fname,
                                                    IF exists THEN dir[out_fname] ELSE 0))
                    /\ i' = i + 1
                    /\ pc' = "loop"
                    /\ work' = dir
                    /\ UNCHANGED <<result, tempAlive>>
    /\ UNCHANGED <<proj_fs, op, fname_list, tmp_arg, return_path, dst_args, tempMade,
                   staged, j, dst, last>>

\* compile_pdf_batch line 88 (return out_list); compile_pdf takes element [0];
\* save_pdf_batch goes on to its copy loop
CompileReturn ==
    /\ pc = "loop"
    /\ LoopDone(i, fname_list)
    /\ IF op = "save_pdf_batch"
       THEN /\ pc' = "copy"
            /\ j' = 1
            /\ UNCHANGED <<result, tempAlive, work>>
       ELSE /\ Exit(Return(IF op = "compile_pdf" THEN out_list[1] ELSE out_list), work)
            /\ UNCHANGED j
    /\ UNCHANGED <<proj_fs, op, fname_list, tmp_arg, return_path, dst_args, tempMade,
                   staged, i, out_list, running, log, dst, last>>

\* dst_fs.makedir(fs.path.dirname(fname), recreate=True)
\* fs.copy.copy_file(tmp_fs, fname, dst_fs, fname)
CopyInto(store, dir, fname) ==
    [dirs |-> IF dirname(fname) = <<>> THEN store.dirs
              ELSE store.dirs \cup {dirname(fname)},
     files |-> WriteFiles(store.files, {fname}, dir[fname])]

\* save_pdf_batch lines 110-112, one iteration: fs.path.dirname(None) raises
CopyStep ==
    /\ pc = "copy"
    /\ ~LoopDone(j, out_list)
    /\ IF out_list[j].kind = "None"
       THEN /\ Exit(Raise("TypeError", <<>>), work)
            /\ UNCHANGED <<j, dst>>
       ELSE /\ dst' = CopyInto(dst, work, out_list[j].fname)
            /\ j' = j + 1
            /\ UNCHANGED <<pc, result, tempAlive, work>>
    /\ UNCHANGED <<proj_fs, op, fname_list, tmp_arg, return_path, dst_args, tempMade,
                   staged, i, out_list, running, log, last>>

\* save_pdf_batch falls off its end: returns None
SaveReturn ==
    /\ pc = "copy"
    /\ LoopDone(j, out_list)
    /\ Exit(Return(None), work)
    /\ UNCHANGED <<proj_fs, op, fname_list, tmp_arg, return_path, dst_args, tempMade,
                   staged, i, out_list, running, log, j, dst, last>>

Next ==
    \/ add_file
    \/ NewBinaryFile
    \/ NewPlainTextFile
    \/ get_fs
    \/ output_fname
    \/ compile_pdf_batch
    \/ compile_pdf
    \/ save_pdf_batch
    \/ Popen
    \/ Communicate
    \/ CompileReturn
    \/ CopyStep
    \/ SaveReturn

Spec == Init /\ [][Next]_vars


(***************************************************************************)
(* What the log says about entry k                                         *)
(***************************************************************************)
Failed(rec) == rec.launch # "ok" \/ rec.returncode > 0

\* the working directory right after the compiler run for entry k
DirAfter(k) == WriteFiles(log[k].seen, log[k].wrote, k)

\* the result the caller is owed for entry k: None when the expected output is
\* absent after the run, else its name or an artifact of its bytes
Owed(k) ==
    LET f == get_output_fname(fname_list[k], PdfExt)
    IN IF f \notin DOMAIN DirAfter(k) THEN [kind |-> "None"]
       ELSE IF return_path THEN [kind |-> "path", fname |-> f]
       ELSE [kind |-> "Pdf", data |-> DirAfter(k)[f]]

IsCompileCall == op \in {"compile_pdf", "compile_pdf_batch"}

(***************************************************************************)
(* C1: a call made with tmp_dir=None leaves no temporary directory behind, *)
(* however it ends (return, LatexError of either kind, TypeError from      *)
(* _get_fs, any other exception).                                          *)
(***************************************************************************)
C1_TempDirRemoved ==
    (pc = "done" /\ tmp_arg = None) => (tempMade = 1 /\ ~tempAlive /\ work = EmptyDir)

\* compile_pdf_batch(["main.tex"]) without tmp_dir ended with compiler-not-found
C1_Witness ==
    /\ pc = "done"
    /\ op = "compile_pdf_batch"
    /\ tmp_arg = None
    /\ fname_list = <<MainTex>>
    /\ result = Raise("LatexError", NotFoundText)
    /\ tempMade = 1

(***************************************************************************)
(* C2: once the compiler could not be launched or exited non-zero for      *)
(* entry k, the call has ended with a LatexError, no later entry was       *)
(* launched and no result list is returned.                                *)
(***************************************************************************)
C2_FailureEndsWithLatexError ==
    \A k \in 1..Len(log) :
        Failed(log[k]) =>
            /\ pc = "done"
            /\ Len(log) = k
            /\ result.kind = "raise"
            /\ result.exc = "LatexError"

(***************************************************************************)
(* C3: save_pdf_batch whose compile phase ended without error returns      *)
(* normally, skipping the entries whose result is None and copying the     *)
(* output of every other entry to the destination store.                   *)
(***************************************************************************)
C3_NoneEntrySkipped ==
    (/\ op = "save_pdf_batch"
     /\ pc = "done"
     /\ staged = 1
     /\ Len(out_list) = Len(fname_list))
    => /\ result = Return(None)
       /\ \A k \in 1..Len(out_list) :
            out_list[k].kind = "path" =>
                /\ out_list[k].fname \in DOMAIN dst.files
                /\ dst.files[out_list[k].fname] >= 0

(***************************************************************************)
(* C4: when every compiler run of a batch exited with status 0 the call    *)
(* raises nothing, and each result is None exactly when the expected       *)
(* output file is absent after that entry's run; otherwise it is the       *)
(* output name (return_path) or an artifact of the file's bytes.           *)
(***************************************************************************)
C4_NoneIffOutputAbsent ==
    IsCompileCall =>
        /\ (pc = "done" /\ \A k \in 1..Len(log) : ~Failed(log[k]))
              => result.kind = "return"
        /\ \A k \in 1..Len(out_list) :
             LET f == get_output_fname(fname_list[k], PdfExt)
                 present == f \in DOMAIN log[k].seen \/ f \in log[k].wrote
             IN /\ (out_list[k].kind = "None") <=> ~present
                /\ present =>
                     IF return_path
                     THEN out_list[k] = [kind |-> "path", fname |-> f]
                     ELSE /\ out_list[k].kind = "Pdf"
                          /\ out_list[k].data =
                                IF f \in log[k].wrote THEN k ELSE log[k].seen[f]

\* a batch of two, artifacts asked for, ended normally: the first entry has no
\* output, the second has one
C4_Witness ==
    /\ pc = "done"
    /\ op = "compile_pdf_batch"
    /\ ~return_path
    /\ result.kind = "return"
    /\ Len(out_list) = 2
    /\ out_list[1].kind = "None"
    /\ out_list[2].kind = "Pdf"

(***************************************************************************)
(* C5: the list compile_pdf_batch returns has one element per entry of     *)
(* fname_list, element k being the result owed for entry k; compile_pdf    *)
(* returns the result owed for its one entry.                              *)
(***************************************************************************)
C5_ResultsInInputOrder ==
    (pc = "done" /\ IsCompileCall /\ result.kind = "return") =>
        IF op = "compile_pdf"
        THEN result.value = Owed(1)
        ELSE /\ Len(result.value) = Len(fname_list)
             /\ \A k \in 1..Len(fname_list) : result.value[k] = Owed(k)

\* the same entry twice: no output after the first run, one after the second
C5_Witness ==
    /\ pc = "done"
    /\ op = "compile_pdf_batch"
    /\ result.kind = "return"
    /\ fname_list = <<MainTex, MainTex>>
    /\ return_path
    /\ result.value[1].kind = "None"
    /\ result.value[2].kind = "path"


(***************************************************************************)
(* C6: _get_output_fname(fname, 'pdf') appends '.pdf' when the file name   *)
(* (the part of fname after its last '/') has no extension, and otherwise  *)
(* replaces what follows the last '.' by 'pdf'.                            *)
(***************************************************************************)
BaseName(fname) == SubSeq(fname, LastIndexOf(fname, "/") + 1, Len(fname))
HasExtension(fname) == Contains(BaseName(fname), ".")

C6_OutputNameDerivation ==
    last.op = "_get_output_fname" =>
        last.out.value =
            IF HasExtension(last.args)
            THEN SubSeq(last.args, 1, LastIndexOf(last.args, ".")) \o PdfExt
            ELSE last.args \o <<".">> \o PdfExt

(***************************************************************************)
(* C7 as stated: at every call site one argument passes the validation,    *)
(* zero or two arguments raise TypeError.                                  *)
(***************************************************************************)
IsTypeError(out) == out.kind = "raise" /\ out.exc = "TypeError"
ValidatingOps == {"BinaryFile", "PlainTextFile", "add_file", "_get_fs"}

C8_MessageTellsTheFailure ==
    (pc = "done" /\ Len(log) > 0) =>
        LET rec == log[Len(log)]
        IN /\ (rec.launch = "FileNotFoundError")
                => result = Raise("LatexError", NotFoundText)
           /\ (rec.returncode > 0 /\ result.kind = "raise" /\ result.exc = "LatexError")
                => /\ result.msg = decode(rec.stdout).text \o decode(rec.stderr).text
                   /\ result.msg # NotFoundText

(***************************************************************************)
(* C9: the project is staged once, before the first launch; the compiler   *)
(* is launched once per entry, in the order of fname_list, each launch     *)
(* with no earlier process still running, and every file present after     *)
(* the run for entry k is present when the run for entry k+1 starts.       *)
(***************************************************************************)
C9_StagedOnceSequential ==
    (op # "none") =>
        /\ staged <= 1
        /\ running <= 1
        /\ Len(log) <= Len(fname_list)
        /\ \A k \in 1..Len(log) :
             /\ log[k].entry = k
             /\ log[k].stagedBefore = 1
             /\ log[k].alreadyRunning = 0
        /\ \A k \in 1..(Len(log) - 1) :
             /\ log[k].launch = "ok"
             /\ log[k].returncode = 0
             /\ \A f \in DOMAIN DirAfter(k) :
                  /\ f \in DOMAIN log[k + 1].seen
                  /\ log[k + 1].seen[f] = DirAfter(k)[f]
        /\ (pc \in {"copy", "done"} /\ \A k \in 1..Len(log) : ~Failed(log[k]))
             => (staged = 1 => Len(log) = Len(fname_list))

\* the second run of a batch is under way and the first one wrote a file
C9_Witness ==
    /\ pc = "communicate"
    /\ Len(log) = 2
    /\ log[1].wrote # {}
    /\ running = 1

(***************************************************************************)
(* C10: in save_pdf_batch, once a compiler run has failed the destination  *)
(* store is what it was before the call, and stays so; a call that ended   *)
(* with LatexError left it unchanged.                                      *)
(***************************************************************************)
C10_NoCopyAfterCompilerError ==
    (op = "save_pdf_batch") =>
        /\ (\E k \in 1..Len(log) : Failed(log[k])) => dst = dst_args.before
        /\ (pc = "done" /\ result.kind = "raise" /\ result.exc = "LatexError")
              => dst = dst_args.before

\* the first entry produced its output, the second run failed: nothing copied
C10_Witness ==
    /\ op = "save_pdf_batch"
    /\ pc = "done"
    /\ result.kind = "raise"
    /\ result.exc = "LatexError"
    /\ Len(log) = 2
    /\ out_list # <<>>
    /\ out_list[1].kind = "path"
    /\ dst = dst_args.before

====
